---- MODULE Spec2Model ----
(***************************************************************************)
(* jsonrpc-http-server: the per-connection ServerHandler (a hyper Handler  *)
(* driven by readable / writable events) and the shared PanicHandler slot  *)
(* of the Server.                                                          *)
(***************************************************************************)
EXTENDS Integers, Sequences, FiniteSets, TLC

\* ---------------------------------------------------------------- bounds
NumConns == 2      \* connections the server accepts
MaxBody == 2       \* bytes of one request body
MaxResult == 1     \* bytes of one dispatcher result (before the newline)
MaxSets == 2       \* calls of set_panic_handler

\* ------------------------------------------------------------- constants
NL == 10           \* '\n'

Conns == 1..NumConns

\* Option<T>: None is the empty tuple, Some(x) the one-element tuple.
None == <<>>
Some(x) == <<x>>
IsSome(o) == Len(o) = 1
Unwrap(o) == o[1]

\* Byte values the clients send: 'a', and the two bytes of U+00E9.
Bytes == {97, 195, 169}

\* All byte strings over alphabet A of length at most n.
RECURSIVE SeqsUpTo(_, _)
SeqsUpTo(A, n) ==
  IF n = 0 THEN {<<>>}
  ELSE LET shorter == SeqsUpTo(A, n - 1)
       IN shorter \cup {Append(s, b) : s \in {t \in shorter : Len(t) = n - 1}, b \in A}

\* The dispatcher's possible return values: None, or Some(text) where the
\* text of length n is the digits '1' .. 'n'.
ResultText(n) == [i \in 1..n |-> 48 + i]
Results(n) == {None} \cup {Some(ResultText(k)) : k \in 0..n}

\* ------------------------------------------------------------------ state
VARIABLES
  life,          \* per connection: "none", "alive", "dropLocked", "dropCalling", "released"
  st,            \* per connection: the protocol position the last Next put it in
  method,        \* per connection: the request method seen by on_request ("-" before)
  request,       \* ServerHandler.request
  response,      \* ServerHandler.response
  write_pos,     \* ServerHandler.write_pos
  cors_domain,   \* ServerHandler.cors_domain (one value, cloned to every handler)
  received,      \* per connection: every byte the decoder has handed out, in order
  eof,           \* per connection: the decoder has reported the end of the body
  zeroRead,      \* per connection: a readable event got Ok(0)
  dispatchArgs,  \* per connection: the arguments of the handle_request calls, in order
  dispatchRet,   \* per connection: None, or Some(what handle_request returned)
  head,          \* per connection: the response head set by on_response (None before)
  written,       \* per connection: the bytes the encoder accepted, in order
  ending,        \* per connection: which Next::end() ended it ("-" before)
  unwoundBy,     \* per connection: 0, or the connection whose panic unwinds its thread
  crashed,       \* per connection: None, or Some(slot when its handle_request panicked)
  notified,      \* per connection: the callbacks its drop invoked, in order
  slot,          \* the PanicHandler slot: 0 is None, k the callback of the k-th set
  lock,          \* the slot's mutex: None, or Some(holder)
  sets,          \* set_panic_handler calls begun
  pcSet          \* set_panic_handler: "idle" or "locked"

hvars == <<request, response, write_pos>>
ivars == <<received, eof, zeroRead>>
dvars == <<dispatchArgs, dispatchRet>>
ovars == <<head, written, ending>>
pvars == <<unwoundBy, crashed, notified>>
rvars == <<slot, lock, sets, pcSet>>
vars == <<life, st, method, cors_domain, hvars, ivars, dvars, ovars, pvars, rvars>>

CorsPolicies == {None, Some("Any"), Some("Null")}

InitWith(policies) ==
  /\ life = [c \in Conns |-> "none"]
  /\ st = [c \in Conns |-> "AwaitingMethod"]
  /\ method = [c \in Conns |-> "-"]
  /\ request = [c \in Conns |-> <<>>]
  /\ response = [c \in Conns |-> None]
  /\ write_pos = [c \in Conns |-> 0]
  /\ cors_domain \in policies
  /\ received = [c \in Conns |-> <<>>]
  /\ eof = [c \in Conns |-> FALSE]
  /\ zeroRead = [c \in Conns |-> FALSE]
  /\ dispatchArgs = [c \in Conns |-> <<>>]
  /\ dispatchRet = [c \in Conns |-> None]
  /\ head = [c \in Conns |-> None]
  /\ written = [c \in Conns |-> <<>>]
  /\ ending = [c \in Conns |-> "-"]
  /\ unwoundBy = [c \in Conns |-> 0]
  /\ crashed = [c \in Conns |-> None]
  /\ notified = [c \in Conns |-> <<>>]
  /\ slot = 0
  /\ lock = None
  /\ sets = 0
  /\ pcSet = "idle"

\* ------------------------------------------------- std and hyper helpers
\* io::Result<usize>
Ok(n) == [ok |-> TRUE, n |-> n, kind |-> "-"]
Err(kind) == [ok |-> FALSE, n |-> 0, kind |-> kind]

\* Number of bytes of the UTF-8 sequence that lead byte b starts (0: b starts none).
Utf8Width(b) ==
  IF b < 128 THEN 1
  ELSE IF b >= 194 /\ b <= 223 THEN 2
  ELSE IF b >= 224 /\ b <= 239 THEN 3
  ELSE IF b >= 240 /\ b <= 244 THEN 4
  ELSE 0

\* The range the byte after lead byte b must lie in.
Utf8Second(b) ==
  IF b = 224 THEN 160..191
  ELSE IF b = 237 THEN 128..159
  ELSE IF b = 240 THEN 144..191
  ELSE IF b = 244 THEN 128..143
  ELSE 128..191

\* str::from_utf8(s).is_ok()
RECURSIVE Utf8Valid(_)
Utf8Valid(s) ==
  IF s = <<>> THEN TRUE
  ELSE LET w == Utf8Width(s[1])
       IN /\ w > 0
          /\ Len(s) >= w
          /\ w >= 2 => s[2] \in Utf8Second(s[1])
          /\ \A i \in 3..w : s[i] \in 128..191
          /\ Utf8Valid(SubSeq(s, w + 1, Len(s)))

\* Read::read_to_string(&mut buf): the reads of one call yield `data` and then
\* end with `term` ("eof": a read of 0 bytes; otherwise the error kind).
\* The bytes are appended only when they are valid UTF-8 on their own;
\* otherwise buf is left as it was and, had the reads succeeded, the call
\* fails with InvalidData.
ReadToString(buf, data, term) ==
  LET valid == Utf8Valid(data)
  IN [buf |-> IF valid THEN buf \o data ELSE buf,
      ret |-> IF term # "eof" THEN Err(term)
              ELSE IF valid THEN Ok(Len(data))
              ELSE Err("InvalidData")]

\* Faulty variant of ResponseHeaders: the Access-Control-Allow-Origin header is
\* left out whatever the policy.
ResponseHeadersNoOrigin(cors) ==
  [Allow |-> <<"OPTIONS", "POST">>,
   ContentType |-> "application/json",
   AccessControlAllowHeaders |-> <<"origin", "content-type", "accept">>,
   AccessControlAllowOrigin |-> None]

\* ServerHandler::response_headers
ResponseHeaders(cors) ==
  [Allow |-> <<"OPTIONS", "POST">>,
   ContentType |-> "application/json",
   AccessControlAllowHeaders |-> <<"origin", "content-type", "accept">>,
   AccessControlAllowOrigin |-> cors]

\* Faulty variant of ResponseStatus: the MethodNotAllowed status is never set.
ResponseStatusDefault(resp) == "Ok"

\* The status on_response leaves on the Response (hyper's default is Ok).
ResponseStatus(resp) ==
  IF resp = None THEN "MethodNotAllowed" ELSE "Ok"

\* Faulty variant of OnRequestNext: POST is not sent to read its body.
OnRequestNextNoRead(m) == "write"

\* Faulty variant of OnRequestResponse: OPTIONS sets no response.
OnRequestResponseUnset(m, resp) == resp

\* on_request: the Next it returns and the response it leaves.
OnRequestNext(m) ==
  CASE m = "OPTIONS" -> "write"
    [] m = "POST" -> "read"
    [] OTHER -> "write"

OnRequestResponse(m, resp) ==
  IF m = "OPTIONS" THEN Some(<<>>) ELSE resp

\* Faulty variant of DispatchResponse: the newline is pushed onto an empty string when
\* there is no result.
DispatchResponseOrEmpty(res) ==
  Some(Append(IF IsSome(res) THEN Unwrap(res) ELSE <<>>, NL))

\* on_request_readable, Ok(0) arm: the response stored for dispatcher result res.
DispatchResponse(res) ==
  IF IsSome(res) THEN Some(Append(Unwrap(res), NL)) ELSE None

\* Faulty variant of ErrorNext: not-ready is treated like any other error.
ErrorNextAlwaysEnd(kind, again) == "end"

\* Faulty variant of ErrorNext: every error is retried.
ErrorNextAlwaysRetry(kind, again) == again

\* The Err(e) arms of on_request_readable and on_response_writable: WouldBlock
\* asks for the same event again, any other kind ends the connection.
ErrorNext(kind, again) ==
  IF kind = "WouldBlock" THEN again ELSE "end"

\* The position hyper puts the connection in for a returned Next.
Position(next, headSent) ==
  CASE next = "read" -> "ReadingBody"
    [] next = "write" -> IF headSent THEN "WritingResponse" ELSE "Responding"
    [] OTHER -> "Done"

Methods == {"OPTIONS", "POST", "GET"}
Terms == {"eof", "WouldBlock", "Other"}

\* std::thread::panicking() on the thread that services c.
ThreadPanicking(c) == unwoundBy[c] # 0

Running(c) == life[c] = "alive" /\ ~ThreadPanicking(c)

\* ---------------------------------------------------------------- actions
\* Faulty variant of NewRequest: the new handler goes on with the buffer of the
\* connection accepted before it.
NewRequestShared(c) == IF c > 1 THEN request[c - 1] ELSE <<>>

\* ServerHandler::new: request: String::new()
NewRequest(c) == <<>>

\* Server::start's factory closure: a new ServerHandler for an accepted connection.
Accept(c) ==
  /\ life[c] = "none"
  /\ \A d \in Conns : d < c => life[d] # "none"
  /\ life' = [life EXCEPT ![c] = "alive"]
  /\ request' = [request EXCEPT ![c] = NewRequest(c)]
  /\ response' = [response EXCEPT ![c] = None]
  /\ write_pos' = [write_pos EXCEPT ![c] = 0]
  /\ UNCHANGED <<st, method, cors_domain, ivars, dvars, ovars, pvars, rvars>>

\* on_request with a request of method m.
OnRequest(c, m) ==
  /\ Running(c)
  /\ st[c] = "AwaitingMethod"
  /\ method' = [method EXCEPT ![c] = m]
  /\ response' = [response EXCEPT ![c] = OnRequestResponse(m, response[c])]
  /\ st' = [st EXCEPT ![c] = Position(OnRequestNext(m), FALSE)]
  /\ UNCHANGED <<life, request, write_pos, cors_domain, ivars, dvars, ovars, pvars, rvars>>

\* What the reads of one read_to_string call on c's decoder can give, the
\* client sending one of `bodies`: the next n bytes of the body, and then the
\* end of the body ("eof", once all of it is read, and from then on), a
\* not-ready socket ("WouldBlock") or a failed one ("Other").
DecoderReads(c, bodies) ==
  LET have == Len(received[c])
      sending == {b \in bodies : Len(b) >= have /\ SubSeq(b, 1, have) = received[c]}
      reads == UNION {{[data |-> SubSeq(b, have + 1, k), term |-> t] :
                         k \in have..Len(b), t \in Terms} : b \in sending}
  IN {r \in reads :
        /\ r.term = "eof" => received[c] \o r.data \in bodies
        /\ eof[c] => r.data = <<>> /\ r.term = "eof"}

\* Faulty variant of EndOfBody: the arm is missing, a zero-byte read is taken
\* for any other Ok(_).
EndOfBodyNever(n) == FALSE

\* The arm `Ok(0)` of on_request_readable's match.
EndOfBody(n) == n = 0

\* on_request_readable: one read_to_string call that reads `data` and ends with `term`.
\* Ok(0) goes on into handle_request, which DispatchReturn or DispatchPanic ends.
OnRequestReadable(c, data, term) ==
  /\ Running(c)
  /\ st[c] = "ReadingBody"
  /\ LET r == ReadToString(request[c], data, term)
     IN /\ request' = [request EXCEPT ![c] = r.buf]
        /\ received' = [received EXCEPT ![c] = @ \o data]
        /\ eof' = [eof EXCEPT ![c] = @ \/ term = "eof"]
        /\ zeroRead' = [zeroRead EXCEPT ![c] = @ \/ (r.ret.ok /\ r.ret.n = 0)]
        /\ IF r.ret.ok /\ EndOfBody(r.ret.n)
           THEN /\ dispatchArgs' = [dispatchArgs EXCEPT ![c] = Append(@, r.buf)]
                /\ st' = [st EXCEPT ![c] = "Dispatching"]
                /\ UNCHANGED ending
           ELSE IF r.ret.ok
           THEN /\ st' = [st EXCEPT ![c] = Position("read", FALSE)]
                /\ UNCHANGED <<dispatchArgs, ending>>
           ELSE /\ st' = [st EXCEPT ![c] = Position(ErrorNext(r.ret.kind, "read"), FALSE)]
                /\ ending' = [ending EXCEPT ![c] =
                                IF r.ret.kind = "WouldBlock" THEN @ ELSE "readError"]
                /\ UNCHANGED dispatchArgs
  /\ UNCHANGED <<life, method, response, write_pos, cors_domain, dispatchRet,
                 head, written, pvars, rvars>>

\* handle_request returns res; the rest of the Ok(0) arm stores it and returns Next::write().
DispatchReturn(c, res) ==
  /\ Running(c)
  /\ st[c] = "Dispatching"
  /\ response' = [response EXCEPT ![c] = DispatchResponse(res)]
  /\ dispatchRet' = [dispatchRet EXCEPT ![c] = Some(res)]
  /\ st' = [st EXCEPT ![c] = Position("write", FALSE)]
  /\ UNCHANGED <<life, method, request, write_pos, cors_domain, ivars, dispatchArgs,
                 ovars, pvars, rvars>>

\* The connections a panic of c's servicing thread can take along: those the
\* same thread services, none of which is inside a handler call of its own.
CanShareThread(c) ==
  {d \in Conns \ {c} : Running(d) /\ st[d] \notin {"Dispatching", "Done"}}

\* handle_request panics: the thread servicing c unwinds, and with it every
\* handler in `others` that the same thread services.
DispatchPanic(c, others) ==
  /\ Running(c)
  /\ st[c] = "Dispatching"
  /\ others \subseteq CanShareThread(c)
  /\ crashed' = [crashed EXCEPT ![c] = Some(slot)]
  /\ unwoundBy' = [d \in Conns |-> IF d = c \/ d \in others THEN c ELSE unwoundBy[d]]
  /\ UNCHANGED <<life, st, method, cors_domain, hvars, ivars, dvars, ovars, notified, rvars>>

\* on_response: the head of the response.
OnResponse(c) ==
  /\ Running(c)
  /\ st[c] = "Responding"
  /\ head' = [head EXCEPT ![c] = Some([status |-> ResponseStatus(response[c]),
                                       headers |-> ResponseHeaders(cors_domain)])]
  /\ st' = [st EXCEPT ![c] = Position("write", TRUE)]
  /\ UNCHANGED <<life, method, cors_domain, hvars, ivars, dvars, written, ending,
                 pvars, rvars>>

\* The write results the encoder can give for a slice of `left` bytes.
WriteResults(left) == {Ok(k) : k \in 0..left} \cup {Err("WouldBlock"), Err("Other")}

\* Faulty variant of WriteSlice: every write starts at the first byte again.
WriteSliceFromStart(bytes, pos) == bytes

\* &bytes[self.write_pos ..]
WriteSlice(bytes, pos) == SubSeq(bytes, pos + 1, Len(bytes))

\* Faulty variant of WritePosAfter: the cursor is moved one byte too far.
WritePosAfterOffByOne(pos, n) == IF n = 0 THEN pos ELSE pos + n + 1

\* self.write_pos += bytes
WritePosAfter(pos, n) == pos + n

\* Variant of WriteOkNext: the connection is ended by the write that
\* completes the response.
WriteOkNextEndWhenComplete(len, pos) == IF pos = len THEN "end" ELSE "write"

\* The Next of the Ok(bytes) arms of on_response_writable: always another write
\* event, also after the last byte.
WriteOkNext(len, pos) == "write"

\* Faulty variant of ResponseAfterWrite: the written bytes are drained from
\* the response.
ResponseDrained(resp, n) == Some(SubSeq(Unwrap(resp), n + 1, Len(Unwrap(resp))))

\* What a write leaves in self.response: it is only borrowed.
ResponseAfterWrite(resp, n) == resp

\* on_response_writable; w is the result of encoder.write, when it is called.
OnResponseWritable(c, w) ==
  /\ Running(c)
  /\ st[c] = "WritingResponse"
  /\ IF response[c] = None
     THEN /\ w = Ok(0)
          /\ st' = [st EXCEPT ![c] = Position("end", TRUE)]
          /\ ending' = [ending EXCEPT ![c] = "complete"]
          /\ UNCHANGED <<write_pos, written, response>>
     ELSE LET bytes == Unwrap(response[c])
              slice == WriteSlice(bytes, write_pos[c])
          IN IF Len(bytes) = write_pos[c]
             THEN /\ w = Ok(0)
                  /\ st' = [st EXCEPT ![c] = Position("end", TRUE)]
                  /\ ending' = [ending EXCEPT ![c] = "complete"]
                  /\ UNCHANGED <<write_pos, written, response>>
             ELSE /\ w \in WriteResults(Len(slice))
                  /\ written' = [written EXCEPT ![c] = @ \o SubSeq(slice, 1, w.n)]
                  /\ response' = [response EXCEPT ![c] = ResponseAfterWrite(@, w.n)]
                  /\ IF w.ok
                     THEN /\ write_pos' = [write_pos EXCEPT ![c] = WritePosAfter(@, w.n)]
                          /\ st' = [st EXCEPT ![c] =
                                      Position(WriteOkNext(Len(bytes), WritePosAfter(write_pos[c], w.n)), TRUE)]
                          /\ UNCHANGED ending
                     ELSE /\ st' = [st EXCEPT ![c] = Position(ErrorNext(w.kind, "write"), TRUE)]
                          /\ ending' = [ending EXCEPT ![c] =
                                          IF w.kind = "WouldBlock" THEN @ ELSE "writeError"]
                          /\ UNCHANGED write_pos
  /\ UNCHANGED <<life, method, request, cors_domain, ivars, dvars, head, pvars, rvars>>

\* Faulty variant of CanLock: the slot is reached without waiting for the lock.
CanLockAlways(l) == TRUE

\* Mutex::lock() returns only when nobody holds the mutex.
CanLock(l) == l = None

\* The handler of c is gone: its fields are freed and the connection's record
\* is closed (only what its drop did to the shared slot is kept).
Freed(c) ==
  /\ st' = [st EXCEPT ![c] = "AwaitingMethod"]
  /\ method' = [method EXCEPT ![c] = "-"]
  /\ request' = [request EXCEPT ![c] = <<>>]
  /\ response' = [response EXCEPT ![c] = None]
  /\ write_pos' = [write_pos EXCEPT ![c] = 0]
  /\ received' = [received EXCEPT ![c] = <<>>]
  /\ eof' = [eof EXCEPT ![c] = FALSE]
  /\ zeroRead' = [zeroRead EXCEPT ![c] = FALSE]
  /\ dispatchArgs' = [dispatchArgs EXCEPT ![c] = <<>>]
  /\ dispatchRet' = [dispatchRet EXCEPT ![c] = None]
  /\ head' = [head EXCEPT ![c] = None]
  /\ written' = [written EXCEPT ![c] = <<>>]
  /\ ending' = [ending EXCEPT ![c] = "-"]

cvars == <<st, method, hvars, ivars, dvars, ovars>>

\* Faulty variant of DropNotifies: the drop does not ask whether the thread panics.
DropNotifiesAlways(c) == TRUE

\* Drop's test: it goes for the slot only `if ::std::thread::panicking()`.
DropNotifies(c) == ThreadPanicking(c)

\* Drop for ServerHandler, up to the lock: hyper releases the handler after
\* Next::end(), an unwinding thread releases it wherever it stands.
DropBegin(c) ==
  /\ life[c] = "alive"
  /\ unwoundBy[c] # 0 \/ st[c] = "Done"
  /\ IF DropNotifies(c)
     THEN /\ CanLock(lock)
          /\ lock' = Some(c)
          /\ life' = [life EXCEPT ![c] = "dropLocked"]
          /\ UNCHANGED cvars
     ELSE /\ life' = [life EXCEPT ![c] = "released"]
          /\ Freed(c)
          /\ UNCHANGED lock
  /\ UNCHANGED <<cors_domain, pvars, slot, sets, pcSet>>

\* Faulty variant of SlotAfterCall: the callback is taken out of the slot to be called.
SlotTakenByCall(s) == 0

\* What `if let Some(ref h) = *handler { h() }` leaves in the slot: h is
\* borrowed, not taken.
SlotAfterCall(s) == s

\* Drop, under the lock: the callback in the slot, if any, is called.
DropNotify(c) ==
  /\ life[c] = "dropLocked"
  /\ IF slot # 0
     THEN /\ notified' = [notified EXCEPT ![c] = Append(@, slot)]
          /\ life' = [life EXCEPT ![c] = "dropCalling"]
          /\ slot' = SlotAfterCall(slot)
          /\ UNCHANGED <<lock, cvars>>
     ELSE /\ lock' = None
          /\ life' = [life EXCEPT ![c] = "released"]
          /\ Freed(c)
          /\ UNCHANGED <<notified, slot>>
  /\ UNCHANGED <<cors_domain, unwoundBy, crashed, sets, pcSet>>

\* Drop, inside h(): the callback calls Server::set_panic_handler, whose lock()
\* is on the mutex this very thread holds. std's Mutex is not reentrant, so the
\* call does not return: no step of c follows, and the guard is never dropped.
CallbackSetsPanicHandler(c) ==
  /\ life[c] = "dropCalling"
  /\ ~CanLock(lock)
  /\ life' = [life EXCEPT ![c] = "dropReentered"]
  /\ UNCHANGED <<st, method, cors_domain, hvars, ivars, dvars, ovars, pvars, rvars>>

\* Drop: the callback has returned and the guard goes out of scope.
DropEnd(c) ==
  /\ life[c] = "dropCalling"
  /\ lock' = None
  /\ life' = [life EXCEPT ![c] = "released"]
  /\ Freed(c)
  /\ UNCHANGED <<cors_domain, pvars, slot, sets, pcSet>>

\* Server::set_panic_handler: lock() ...
SetPanicHandlerLock ==
  /\ pcSet = "idle"
  /\ sets < MaxSets
  /\ CanLock(lock)
  /\ lock' = Some(0)
  /\ sets' = sets + 1
  /\ pcSet' = "locked"
  /\ UNCHANGED <<life, st, method, cors_domain, hvars, ivars, dvars, ovars, pvars, slot>>

\* ... and the store through the guard, which is then released.
SetPanicHandlerStore ==
  /\ pcSet = "locked"
  /\ slot' = sets
  /\ lock' = None
  /\ pcSet' = "idle"
  /\ UNCHANGED <<life, st, method, cors_domain, hvars, ivars, dvars, ovars, pvars, sets>>

\* ---------------------------------------------------------- specifications
\* The events of connection c: its client sends one of `bodies`, in chunks of
\* any sizes, and the dispatcher returns one of `results`.
ConnStep(c, bodies, results) ==
  \/ Accept(c)
  \/ \E m \in Methods : OnRequest(c, m)
  \/ \E r \in DecoderReads(c, bodies) : OnRequestReadable(c, r.data, r.term)
  \/ \E res \in results : DispatchReturn(c, res)
  \/ \E others \in SUBSET Conns : DispatchPanic(c, others)
  \/ OnResponse(c)
  \/ \E w \in WriteResults(MaxResult + 1) : OnResponseWritable(c, w)
  \/ DropBegin(c)
  \/ CallbackSetsPanicHandler(c)
  \/ DropNotify(c)
  \/ DropEnd(c)

\* One connection, its body any bytes, under every CORS policy.
ByteBodies == SeqsUpTo(Bytes, MaxBody)
InitConn == InitWith(CorsPolicies)
NextConn ==
  \/ ConnStep(1, ByteBodies, Results(MaxResult))
  \/ SetPanicHandlerLock
  \/ SetPanicHandlerStore
SpecConn == InitConn /\ [][NextConn]_vars

\* The server: NumConns connections and the shared slot. The client of
\* connection c sends the one letter 'a' + c - 1, and the dispatcher answers it
\* with the one digit '0' + c.
TextBodies(c) == {<<96 + c>>}
TextResults(c) == {Some(<<48 + c>>)}
Init == InitWith({Some("Any")})
Next ==
  \/ \E c \in Conns : ConnStep(c, TextBodies(c), TextResults(c))
  \/ SetPanicHandlerLock
  \/ SetPanicHandlerStore
Spec == Init /\ [][Next]_vars

\* The server with a dispatcher that returns, under a fair reactor: an armed
\* event is delivered, and the engine does not answer a re-armed read or write
\* with WouldBlock, or with a write of zero bytes, for ever.
ReadProgress(c) ==
  \E r \in DecoderReads(c, TextBodies(c)) :
    /\ ~(r.data = <<>> /\ r.term = "WouldBlock")
    /\ OnRequestReadable(c, r.data, r.term)
WriteProgress(c) ==
  \E w \in WriteResults(MaxResult + 1) :
    /\ w # Err("WouldBlock")
    /\ OnResponseWritable(c, w)
    /\ w = Ok(0) => st'[c] = "Done"
LiveStep(c) ==
  \/ Accept(c)
  \/ \E m \in Methods : OnRequest(c, m)
  \/ \E r \in DecoderReads(c, TextBodies(c)) : OnRequestReadable(c, r.data, r.term)
  \/ \E res \in TextResults(c) \cup {None} : DispatchReturn(c, res)
  \/ OnResponse(c)
  \/ \E w \in WriteResults(MaxResult + 1) : OnResponseWritable(c, w)
  \/ DropBegin(c)
NextLive == \E c \in Conns : LiveStep(c)
Fairness ==
  \A c \in Conns :
    /\ WF_vars(\E m \in Methods : OnRequest(c, m))
    /\ WF_vars(ReadProgress(c))
    /\ WF_vars(\E res \in TextResults(c) \cup {None} : DispatchReturn(c, res))
    /\ WF_vars(OnResponse(c))
    /\ WF_vars(WriteProgress(c))
SpecLive == Init /\ [][NextLive]_vars /\ Fairness

\* ------------------------------------------------------------------ claims
Alive(c) == life[c] # "none" /\ life[c] # "released"
Dispatched(c) == dispatchArgs[c] # <<>>
SentHead(c) == Unwrap(head[c])

\* C1: a POST connection whose readable events ended in a zero-byte read has
\* had handle_request called exactly once, with every byte of the body the
\* decoder handed out, in order. Stated for bodies that are valid UTF-8 text.
C1_DispatchedOnceWithBody ==
  \A c \in Conns :
    (method[c] = "POST" /\ zeroRead[c] /\ Utf8Valid(received[c]))
      => /\ Len(dispatchArgs[c]) = 1
         /\ dispatchArgs[c][1] = received[c]

\* C2: a connection that has a response and ended without a write error has
\* had exactly the bytes of the response accepted by the encoder, each once and
\* in order, and its write_pos is the length of the response.
C2_WrittenIsResponse ==
  \A c \in Conns :
    (Alive(c) /\ st[c] = "Done" /\ IsSome(response[c]) /\ ending[c] # "writeError")
      => /\ written[c] = Unwrap(response[c])
         /\ write_pos[c] = Len(Unwrap(response[c]))

C2_Witness ==
  \E c \in Conns :
    /\ st[c] = "Done"
    /\ ending[c] = "complete"
    /\ IsSome(response[c])
    /\ Len(written[c]) >= 2
    /\ written[c] = Unwrap(response[c])

\* C3: on a POST connection handle_request is called only after a read of zero
\* bytes at the end of the body, the request buffer never changes after the call,
\* and neither the response head nor a response byte goes out before the call
\* has returned.
C3_DispatchBetweenReadAndWrite ==
  \A c \in Conns :
    method[c] = "POST" =>
      /\ Dispatched(c) => (zeroRead[c] /\ eof[c] /\ request[c] = dispatchArgs[c][1])
      /\ (head[c] # None \/ written[c] # <<>>) => (Dispatched(c) /\ dispatchRet[c] # None)

C3_Witness ==
  \E c \in Conns :
    /\ method[c] = "POST"
    /\ Len(request[c]) >= 2
    /\ Dispatched(c)
    /\ written[c] # <<>>

\* C4: an OPTIONS request never reaches handle_request and never asks for a
\* read; its response is the empty string, its head has the Ok status and all
\* the headers, and it ends, through the write path, with no body byte written.
C4_Preflight ==
  \A c \in Conns :
    method[c] = "OPTIONS" =>
      /\ ~Dispatched(c)
      /\ st[c] \notin {"ReadingBody", "Dispatching"}
      /\ received[c] = <<>>
      /\ response[c] = Some(<<>>)
      /\ written[c] = <<>>
      /\ head[c] # None =>
           /\ SentHead(c).status = "Ok"
           /\ SentHead(c).headers.Allow = <<"OPTIONS", "POST">>
           /\ SentHead(c).headers.ContentType = "application/json"
           /\ SentHead(c).headers.AccessControlAllowHeaders = <<"origin", "content-type", "accept">>
           /\ SentHead(c).headers.AccessControlAllowOrigin = cors_domain
      /\ st[c] = "Done" => (head[c] # None /\ ending[c] = "complete")

C4_Witness ==
  \E c \in Conns : method[c] = "OPTIONS" /\ st[c] = "Done" /\ head[c] # None

\* C5: a request that is neither OPTIONS nor POST never reaches handle_request,
\* its response stays None, its head has the MethodNotAllowed status and the
\* Allow header of every response, and no body byte is written.
C5_MethodNotAllowed ==
  \A c \in Conns :
    method[c] \notin {"-", "OPTIONS", "POST"} =>
      /\ ~Dispatched(c)
      /\ st[c] \notin {"ReadingBody", "Dispatching"}
      /\ response[c] = None
      /\ written[c] = <<>>
      /\ head[c] # None =>
           /\ SentHead(c).status = "MethodNotAllowed"
           /\ SentHead(c).headers.Allow = <<"OPTIONS", "POST">>
      /\ st[c] = "Done" => head[c] # None

C5_Witness ==
  \E c \in Conns : method[c] = "GET" /\ st[c] = "Done" /\ head[c] # None

\* C6: every POST request that was dispatched is answered with the Ok status,
\* whatever handle_request returned, and a returned result R makes the
\* response R followed by one newline.
C6_PostAnsweredOk ==
  \A c \in Conns :
    (method[c] = "POST" /\ dispatchRet[c] # None) =>
      /\ head[c] # None => SentHead(c).status = "Ok"
      /\ IsSome(Unwrap(dispatchRet[c])) =>
           response[c] = Some(Unwrap(Unwrap(dispatchRet[c])) \o <<NL>>)

\* C7: when handle_request returns None the response stays None, no body byte
\* is written, and the connection ends in on_response_writable's no-response
\* arm (a completed write path), not in an error arm.
C7_NoResultEndsNormally ==
  \A c \in Conns :
    (method[c] = "POST" /\ dispatchRet[c] = Some(None)) =>
      /\ response[c] = None
      /\ written[c] = <<>>
      /\ write_pos[c] = 0
      /\ st[c] \in {"Responding", "WritingResponse", "Done"}
      /\ st[c] = "Done" => (head[c] # None /\ ending[c] = "complete")

C7_Witness ==
  \E c \in Conns :
    /\ dispatchRet[c] = Some(None)
    /\ st[c] = "Done"
    /\ ending[c] = "complete"

\* The callbacks invoked by the drops of the handlers among 1..n that the panic
\* of c0 unwinds.
RECURSIVE NotifiedFor(_, _)
NotifiedFor(c0, n) ==
  IF n = 0 THEN 0
  ELSE NotifiedFor(c0, n - 1) + (IF unwoundBy[n] = c0 THEN Len(notified[n]) ELSE 0)

Unwound(c0) == {d \in Conns : unwoundBy[d] = c0}

\* C8: a panic inside handle_request on one connection, a callback being
\* registered, has the callback invoked once in all (never more, and once when
\* the unwinding is over), and every connection that panic does not unwind is
\* still served: it ends with its whole response written.
C8_CrashNotifiedOnce ==
  /\ \A c0 \in Conns :
       (crashed[c0] # None /\ Unwrap(crashed[c0]) # 0) =>
         /\ NotifiedFor(c0, NumConns) <= 1
         /\ (\A d \in Unwound(c0) : life[d] = "released") => NotifiedFor(c0, NumConns) = 1
  /\ \A c \in Conns :
       (Alive(c) /\ unwoundBy[c] = 0 /\ st[c] = "Done" /\ ending[c] = "complete"
          /\ IsSome(response[c]))
         => written[c] = Unwrap(response[c])

\* C9: the drop of a handler invokes a callback at most once, only when its
\* thread is unwinding and only a callback that was registered; it does invoke
\* one when a callback was registered before the unwinding began, in whatever
\* position the connection was, and never when the slot is still empty.
C9_NotifiedIffUnwinding ==
  \A c \in Conns :
    /\ Len(notified[c]) <= 1
    /\ notified[c] # <<>> => (unwoundBy[c] # 0 /\ notified[c][1] \in 1..sets)
    /\ (life[c] = "released" /\ unwoundBy[c] # 0 /\ Unwrap(crashed[unwoundBy[c]]) # 0)
         => Len(notified[c]) = 1
    /\ (life[c] = "released" /\ unwoundBy[c] # 0 /\ slot = 0) => notified[c] = <<>>

C9_Witness ==
  \E c, d \in Conns :
    /\ crashed[c] # None /\ life[c] = "released" /\ Len(notified[c]) = 1
    /\ unwoundBy[d] = c /\ life[d] = "dropCalling" /\ st[d] = "ReadingBody"
    /\ Len(notified[d]) = 1

\* C10: the slot always holds the callback of the last completed
\* set_panic_handler call (it is never cleared, only replaced), and the
\* callback a drop invokes is that one, also for a handler created before the
\* call that installed it.
C10_LatestCallback ==
  /\ slot = IF pcSet = "locked" THEN sets - 1 ELSE sets
  /\ \A c \in Conns :
       life[c] = "dropCalling" =>
         (pcSet = "idle" /\ sets >= 1 /\ notified[c] = <<sets>>)

C10_Witness ==
  \E c \in Conns :
    /\ crashed[c] = Some(1)
    /\ life[c] = "released"
    /\ notified[c] = <<2>>
    /\ slot = 2

\* C11: every response head that went out (200 for a POST with a result, 200
\* for a preflight, 405) carries Allow: OPTIONS, POST, Content-Type:
\* application/json and Access-Control-Allow-Headers: origin, content-type,
\* accept; it carries Access-Control-Allow-Origin exactly when the server was
\* started with a CORS domain, and then with that very value.
C11_HeadersFollowPolicy ==
  \A c \in Conns :
    head[c] # None =>
      LET h == SentHead(c).headers IN
        /\ h.Allow = <<"OPTIONS", "POST">>
        /\ h.ContentType = "application/json"
        /\ h.AccessControlAllowHeaders = <<"origin", "content-type", "accept">>
        /\ IsSome(h.AccessControlAllowOrigin) <=> IsSome(cors_domain)
        /\ IsSome(cors_domain) =>
             Unwrap(h.AccessControlAllowOrigin) = Unwrap(cors_domain)

C11_Witness ==
  \E c \in Conns :
    /\ head[c] # None
    /\ SentHead(c).status = "MethodNotAllowed"
    /\ SentHead(c).headers.AccessControlAllowOrigin = Some("Null")

\* C12: a read or a write that fails with an error other than WouldBlock ends
\* the connection in that step. After the read error handle_request has not
\* been and is never called and no head and no body byte goes out; after the
\* write error no further byte goes out. The step calls no panic callback,
\* leaves the slot alone and changes nothing of any other connection.
C12_HardErrorsEnd ==
  [][\A c \in Conns :
      /\ (ending[c] = "-" /\ ending'[c] \in {"readError", "writeError"}) =>
           /\ st'[c] = "Done"
           /\ notified' = notified
           /\ slot' = slot
           /\ \A d \in Conns \ {c} :
                /\ life'[d] = life[d] /\ st'[d] = st[d] /\ method'[d] = method[d]
                /\ request'[d] = request[d] /\ response'[d] = response[d]
                /\ write_pos'[d] = write_pos[d] /\ dispatchArgs'[d] = dispatchArgs[d]
                /\ head'[d] = head[d] /\ written'[d] = written[d]
                /\ ending'[d] = ending[d] /\ unwoundBy'[d] = unwoundBy[d]
      /\ ending'[c] = "readError" =>
           /\ st'[c] = "Done"
           /\ ~Dispatched(c)' /\ dispatchRet'[c] = None
           /\ head'[c] = None /\ written'[c] = <<>>
           /\ notified'[c] = <<>>
      /\ ending'[c] = "writeError" =>
           /\ st'[c] = "Done"
           /\ notified'[c] = <<>>
           /\ ending[c] = "writeError" => written'[c] = written[c]
    ]_vars

C12_Witness ==
  \E c, d \in Conns :
    /\ ending[c] = "readError" /\ received[c] # <<>>
    /\ ending[d] = "writeError" /\ written[d] # <<>>
    /\ slot # 0

\* C13: write_pos is 0 when the handler is made and as long as its response is
\* None; once the response is set it lies between 0 and the length of the
\* response; and no step of the handler's life makes it smaller.
C13_WritePosBounded ==
  /\ \A c \in Conns : write_pos[c] = 0
  /\ [][\A c \in Conns :
          /\ response'[c] = None => write_pos'[c] = 0
          /\ IsSome(response'[c]) =>
               (0 <= write_pos'[c] /\ write_pos'[c] <= Len(Unwrap(response'[c])))
          /\ Alive(c)' => write_pos'[c] >= write_pos[c]
       ]_vars

C13_Witness ==
  \E c \in Conns :
    /\ IsSome(response[c])
    /\ 0 < write_pos[c] /\ write_pos[c] < Len(Unwrap(response[c]))

\* C14: once a handler's response is set no later step of its life changes
\* it, neither a writable event nor on_response; and from on_response on, the
\* status that went out is MethodNotAllowed exactly if the response is None.
C14_ResponseFrozen ==
  [][\A c \in Conns :
      /\ (IsSome(response[c]) /\ Alive(c)') => response'[c] = response[c]
      /\ head'[c] # None =>
           (SentHead(c)'.status = "MethodNotAllowed" <=> response'[c] = None)
      /\ (head[c] # None /\ Alive(c)') =>
           (head'[c] = head[c] /\ response'[c] = response[c])
    ]_vars

C14_Witness ==
  \E c \in Conns :
    /\ IsSome(response[c]) /\ head[c] # None
    /\ written[c] # <<>> /\ st[c] = "Done"

\* C15: WouldBlock is not an error. A read that reports it leaves the
\* connection reading, with handle_request not called, and asks for the next
\* readable event; a write that reports it, or that takes zero bytes, leaves
\* the connection writing, write_pos and the response as they were, and asks
\* for the next writable event.
C15_NotReadyRetries ==
  [][\A c \in Conns :
      /\ \A data \in ByteBodies :
           OnRequestReadable(c, data, "WouldBlock") =>
             /\ st'[c] = "ReadingBody"
             /\ ending'[c] = "-"
             /\ dispatchArgs'[c] = dispatchArgs[c]
             /\ response'[c] = response[c]
      /\ \A w \in {Ok(0), Err("WouldBlock")} :
           ( /\ IsSome(response[c])
             /\ write_pos[c] < Len(Unwrap(response[c]))
             /\ OnResponseWritable(c, w) ) =>
             /\ st'[c] = "WritingResponse"
             /\ ending'[c] = "-"
             /\ write_pos'[c] = write_pos[c]
             /\ response'[c] = response[c]
             /\ written'[c] = written[c]
    ]_vars

\* The body is not at its end, so every read so far reported WouldBlock, and
\* one of them brought bytes.
C15_Witness ==
  \E c \in Conns :
    /\ st[c] = "ReadingBody"
    /\ received[c] # <<>> /\ ~eof[c]
    /\ ~Dispatched(c)

\* C16, as claimed: the write of k > 0 bytes that brings write_pos to the
\* length of the response ends the connection in that same step, and a
\* connection stays writing only while write_pos is short of the length.
C16_EndsWithLastByte ==
  [][\A c \in Conns :
      ( /\ IsSome(response[c]) /\ st[c] = "WritingResponse"
        /\ write_pos'[c] > write_pos[c]
        /\ write_pos'[c] = Len(Unwrap(response[c])) ) => st'[c] = "Done"
    ]_vars

\* C16, as the code has it: a write of k > 0 bytes always leaves the
\* connection writing and asks for another writable event, also when it
\* brought write_pos to the length of the response; the connection ends on
\* the writable event that finds write_pos at the length, and that event
\* writes nothing.
C16_EndsOnNextWritable ==
  [][\A c \in Conns :
      /\ (Alive(c)' /\ write_pos'[c] > write_pos[c]) =>
           (st[c] = "WritingResponse" /\ st'[c] = "WritingResponse" /\ ending'[c] = "-")
      /\ \A w \in WriteResults(MaxResult + 1) :
           ( /\ IsSome(response[c])
             /\ write_pos[c] = Len(Unwrap(response[c]))
             /\ OnResponseWritable(c, w) ) =>
             /\ st'[c] = "Done" /\ ending'[c] = "complete"
             /\ written'[c] = written[c] /\ write_pos'[c] = write_pos[c]
    ]_vars

C16_Witness ==
  \E c \in Conns :
    /\ st[c] = "WritingResponse"
    /\ IsSome(response[c])
    /\ write_pos[c] > 0 /\ write_pos[c] = Len(Unwrap(response[c]))
    /\ written[c] = Unwrap(response[c])

\* C17: the slot is reached under mutual exclusion. At most one of
\* set_panic_handler and the drops is past lock() at a time, and the mutex
\* names it; while a drop is calling the callback no set_panic_handler is at
\* the slot and the slot still holds the callback being called; and whenever
\* no set_panic_handler is under way the slot holds the callback of the last
\* one that completed, none lost and none mixed.
C17_SlotUnderMutex ==
  LET holders == {c \in Conns : life[c] \in {"dropLocked", "dropCalling", "dropReentered"}}
                   \cup (IF pcSet = "locked" THEN {0} ELSE {})
  IN /\ Cardinality(holders) <= 1
     /\ lock = None <=> holders = {}
     /\ \A h \in holders : lock = Some(h)
     /\ \A c \in Conns :
          life[c] \in {"dropCalling", "dropReentered"} =>
            /\ pcSet = "idle"
            /\ notified[c] # <<>> /\ slot = notified[c][Len(notified[c])]
     /\ pcSet = "idle" => slot = sets
     /\ pcSet = "locked" => slot = sets - 1

\* A drop is calling the callback of the first set_panic_handler while another
\* handler of the panicking thread waits to be dropped and a second
\* set_panic_handler can be called.
C17_Witness ==
  \E c, d \in Conns :
    /\ c # d
    /\ life[c] = "dropCalling" /\ lock = Some(c)
    /\ life[d] = "alive" /\ ThreadPanicking(d)
    /\ pcSet = "idle" /\ sets = 1 /\ sets < MaxSets

\* C18: with a dispatcher that returns and an engine that does not keep a
\* re-armed event at WouldBlock for ever, every accepted connection reaches
\* Done; and Done is final: as long as the handler lives nothing is read,
\* dispatched or written after it.
C18_ReachesDone ==
  /\ \A c \in Conns : (life[c] = "alive") ~> (st[c] = "Done")
  /\ [][\A c \in Conns :
          (st[c] = "Done" /\ Alive(c)') =>
            /\ st'[c] = "Done"
            /\ received'[c] = received[c] /\ request'[c] = request[c]
            /\ dispatchArgs'[c] = dispatchArgs[c] /\ response'[c] = response[c]
            /\ head'[c] = head[c] /\ written'[c] = written[c]
            /\ write_pos'[c] = write_pos[c] /\ ending'[c] = ending[c]
       ]_vars

C18_Witness ==
  \E c \in Conns :
    /\ life[c] = "alive" /\ st[c] = "Done" /\ ending[c] = "complete"
    /\ method[c] = "POST" /\ zeroRead[c]
    /\ IsSome(response[c]) /\ written[c] = Unwrap(response[c])

\* C19: with the connections interleaved, a step changes the request, the
\* response or the write_pos of a handler only if it is an event of that
\* handler's own connection, and of one handler at most; every connection has
\* handle_request called at most once, with the bytes its own client sent,
\* gets the result to its own request as response and writes bytes of that
\* response only; and the CORS domain is never changed after the start.
C19_ConnectionsIsolated ==
  [][/\ cors_domain' = cors_domain
     /\ \A c \in Conns :
          /\ <<request[c], response[c], write_pos[c]>>' # <<request[c], response[c], write_pos[c]>> =>
               /\ ConnStep(c, TextBodies(c), TextResults(c))
               /\ \A d \in Conns \ {c} :
                    <<request[d], response[d], write_pos[d]>>' = <<request[d], response[d], write_pos[d]>>
          /\ Len(dispatchArgs'[c]) <= 1
          /\ \A i \in 1..Len(dispatchArgs'[c]) :
               dispatchArgs'[c][i] = received'[c] /\ received'[c] \in TextBodies(c)
          /\ \E b \in TextBodies(c) :
               Len(request'[c]) <= Len(b) /\ request'[c] = SubSeq(b, 1, Len(request'[c]))
          /\ (method'[c] = "POST" /\ IsSome(response'[c])) =>
               \E res \in TextResults(c) : response'[c] = DispatchResponse(res)
          /\ IsSome(response'[c]) =>
               /\ Len(written'[c]) <= Len(Unwrap(response'[c]))
               /\ written'[c] = SubSeq(Unwrap(response'[c]), 1, Len(written'[c]))
    ]_vars

\* Both connections are in the middle of writing, each its own response to its
\* own request.
C19_Witness ==
  /\ \A c \in 1..2 :
       /\ st[c] = "WritingResponse" /\ Dispatched(c)
       /\ written[c] # <<>> /\ write_pos[c] < Len(Unwrap(response[c]))
  /\ request[1] # request[2] /\ response[1] # response[2]

\* C20: the mutex of the slot is taken by set_panic_handler and by the drop of
\* a panicking thread only, and each gives it back at its end, so that every
\* one of them gets the mutex and completes, also when a callback calls
\* set_panic_handler itself. Stated on finite runs: whoever holds the mutex
\* has a step to take towards giving it back.
C20_LockIsGivenBack ==
  lock # None =>
    ENABLED (SetPanicHandlerStore \/ \E c \in Conns : DropNotify(c) \/ DropEnd(c))

====
